---- MODULE Spec2Model ----
(***************************************************************************)
(* Request handling of the storefront routes: the loaders and actions of   *)
(* the auth, account, blog, collection, product and root routes, the       *)
(* session cookie they read and write, the storefront calls they issue     *)
(* and the responses they produce.                                         *)
(*                                                                         *)
(* A handler that awaits every call it makes is one action: the storefront *)
(* results it consumes are inputs of the action.  The two loaders that     *)
(* leave promises pending (root, product) are split at their awaits.       *)
(***************************************************************************)
EXTENDS Integers, Sequences, FiniteSets, TLC

VARIABLES
    cookie,     \* customerAccessToken held by the browser's session cookie
    now,        \* Date.now()
    req,        \* the request being / last handled
    session,    \* customerAccessToken in the request's session object
    calls,      \* storefront queries and mutations issued for the request
    results,    \* what the storefront answered, call by call
    resp,       \* the response of the request
    promises,   \* deferred queries of the request
    streamed,   \* deferred values delivered after the response, in order
    headers,    \* the Headers object the root loader builds
    rootIsLoggedIn, \* isLoggedIn of the root loader
    page,       \* the product the product loader hands to the page
    trail       \* the URLs the browser requested while following redirects

vars == <<cookie, now, req, session, calls, results, resp, promises,
          streamed, headers, rootIsLoggedIn, page, trail>>

----------------------------------------------------------------------------
(* Bounds *)

MaxTime == 2
MaxHops == 5

----------------------------------------------------------------------------
(* Values *)

Token(a, e) == [present |-> TRUE, accessToken |-> a, expiresAt |-> e]
NoToken == [present |-> FALSE, accessToken |-> "", expiresAt |-> 0]

\* customerAccessToken objects the storefront can hand out
ApiTokens == {Token("tokA", 1), Token("tokB", 3), Token("", 3)}

Strings == {"", "a", "b"}
Methods == {"GET", "POST", "PUT", "DELETE"}

\* FormData: a function from the submitted field names to their values
Forms(fields, values) ==
    UNION {[S -> values] : S \in SUBSET fields}

Has(form, k) == k \in DOMAIN form
Truthy(s) == s # ""

\* String(form.get(k)): the value, or "null" for a missing field
StringGet(form, k) == IF Has(form, k) THEN form[k] ELSE "null"
\* form.get(k) used as a condition: null and "" are falsy
GetTruthy(form, k) == Has(form, k) /\ form[k] # ""

\* decodeURIComponent on the ids of the model
DecodeURIComponent(s) ==
    IF s = "gid%3A2" THEN "gid:2" ELSE s

----------------------------------------------------------------------------
(* Storefront results *)

\* kind "throw": the call rejects; "null": the payload field is null;
\* "payload": the payload with its token, user errors and object id.
Result(kind, token, errors, obj) ==
    [kind |-> kind, token |-> token, errors |-> errors, obj |-> obj]

Throw == Result("throw", NoToken, <<>>, "")
NullPayload == Result("null", NoToken, <<>>, "")

UserErrors == {<<>>, <<"Unidentified customer">>,
               <<"Unidentified customer", "Too many attempts">>}

TokenResults ==
    {Throw, NullPayload} \cup
    {Result("payload", t, e, "") : t \in ApiTokens \cup {NoToken},
                                   e \in UserErrors}

ObjectResults ==
    {Throw, NullPayload} \cup
    {Result("payload", NoToken, e, o) : e \in {<<>>, <<"Invalid input">>},
                                        o \in {"", "gid:1"}}

NetworkError == "Storefront API request failed"
TypeErrorMessage == "Cannot read properties of undefined (reading 'message')"

Call(op, token, id, input) ==
    [op |-> op, token |-> token, id |-> id, input |-> input]

----------------------------------------------------------------------------
(* Responses *)

NoResp ==
    [kind |-> "none", status |-> 0, location |-> "", error |-> <<>>,
     errorKey |-> "", setCookie |-> <<>>, data |-> ""]

\* json(body, init)
Json(status, error, setCookie, data) ==
    [kind |-> "json", status |-> status, location |-> "", error |-> error,
     errorKey |-> "", setCookie |-> setCookie, data |-> data]

\* json({error: {[key]: message}}, init)
JsonKeyed(status, key, error) ==
    [kind |-> "json", status |-> status, location |-> "", error |-> error,
     errorKey |-> key, setCookie |-> <<>>, data |-> ""]

\* redirect(url, init)
Redirect(status, location, setCookie) ==
    [kind |-> "redirect", status |-> status, location |-> location,
     error |-> <<>>, errorKey |-> "", setCookie |-> setCookie, data |-> ""]

\* throw new Response(body, {status})
Thrown(status, message) ==
    [kind |-> "thrown", status |-> status, location |-> "",
     error |-> message, errorKey |-> "", setCookie |-> <<>>, data |-> ""]

\* an Error that leaves the handler: the framework answers 500 and the
\* headers the handler was building are lost
Uncaught(message) == Thrown(500, <<message>>)

\* defer(data, init)
Defer(setCookie, data) ==
    [kind |-> "defer", status |-> 200, location |-> "", error |-> <<>>,
     errorKey |-> "", setCookie |-> setCookie, data |-> data]

\* what a handler leaves behind
Outcome(r, s, c) == [resp |-> r, session |-> s, calls |-> c]

\* session.commit(): the cookie value of the session's current content
Commit(s) == <<s>>

----------------------------------------------------------------------------
(* /account/login *)

LoginLoader(sess) ==
    IF sess.present
    THEN Outcome(Redirect(302, "/account", <<>>), sess, <<>>)
    ELSE Outcome(Json(200, <<>>, <<>>, ""), sess, <<>>)

\* the message of the Error thrown when no access token came back
LoginFailureMessage(res) ==
    IF res.kind = "null" THEN ""
    ELSE IF Len(res.errors) = 0 THEN TypeErrorMessage
    ELSE res.errors[1]

\* variant: the password is not looked at
LoginValidInputsEmailOnly(form) ==
    GetTruthy(form, "email")

\* validInputs: Boolean(email && password)
LoginValidInputs(form) ==
    GetTruthy(form, "email") /\ GetTruthy(form, "password")

\* variant: any customerAccessToken object counts, with or without accessToken
LoginTokenReturnedAnyObject(res) ==
    res.kind = "payload" /\ res.token.present

\* customerAccessTokenCreate?.customerAccessToken?.accessToken
LoginTokenReturned(res) ==
    res.kind = "payload" /\ res.token.present /\ Truthy(res.token.accessToken)

LoginAction(method, form, res, sess) ==
    IF method # "POST"
    THEN Outcome(Json(405, <<"Method not allowed">>, <<>>, ""), sess, <<>>)
    ELSE
    LET email == IF Has(form, "email") THEN form["email"] ELSE ""
        password == IF Has(form, "password") THEN form["password"] ELSE ""
        validInputs == LoginValidInputs(form)
        mutation == <<Call("customerAccessTokenCreate", "", "",
                           [email |-> email, password |-> password])>>
    IN  IF ~validInputs
        THEN Outcome(Json(400, <<"Please provide both an email and a password.">>,
                          <<>>, ""), sess, <<>>)
        ELSE IF res.kind = "throw"
        THEN Outcome(Json(400, <<NetworkError>>, <<>>, ""), sess, mutation)
        ELSE IF ~LoginTokenReturned(res)
        THEN Outcome(Json(400, <<LoginFailureMessage(res)>>, <<>>, ""),
                     sess, mutation)
        ELSE Outcome(Redirect(302, "/account", Commit(res.token)),
                     res.token, mutation)

----------------------------------------------------------------------------
(* /account/activate/:id/:activationToken *)

\* a route parameter that is absent or empty is falsy
Param(params, k) == IF Has(params, k) THEN params[k] ELSE ""

ActivateAction(method, params, form, res, sess) ==
    IF method # "POST"
    THEN Outcome(Json(405, <<"Method not allowed">>, <<>>, ""), sess, <<>>)
    ELSE
    LET id == Param(params, "id")
        activationToken == Param(params, "activationToken")
        validPasswords ==
            /\ GetTruthy(form, "password")
            /\ GetTruthy(form, "passwordConfirm")
            /\ form["password"] = form["passwordConfirm"]
        mutation == <<Call("customerActivate", "", id,
                           [password |-> StringGet(form, "password"),
                            activationToken |-> activationToken])>>
    IN  IF ~Truthy(id) \/ ~Truthy(activationToken)
        THEN Outcome(Json(400, <<"Missing token. The link you followed might be wrong.">>,
                          <<>>, ""), sess, <<>>)
        ELSE IF ~validPasswords
        THEN Outcome(Json(400, <<"Passwords do not match">>, <<>>, ""),
                     sess, <<>>)
        ELSE IF res.kind = "throw"
        THEN Outcome(Json(400, <<NetworkError>>, <<>>, ""), sess, mutation)
        ELSE IF res.kind = "payload" /\ Len(res.errors) > 0
        THEN Outcome(Json(400, <<res.errors[1]>>, <<>>, ""), sess, mutation)
        ELSE IF ~(res.kind = "payload" /\ res.token.present)
        THEN Outcome(Json(400, <<"Could not activate account.">>, <<>>, ""),
                     sess, mutation)
        ELSE Outcome(Redirect(302, "/account", Commit(res.token)),
                     res.token, mutation)

----------------------------------------------------------------------------
(* /account/recover *)

RecoverAction(method, form, res, sess) ==
    IF method # "POST"
    THEN Outcome(Json(405, <<"Method not allowed">>, <<>>, ""), sess, <<>>)
    ELSE
    LET mutation == <<Call("customerRecover", "", "",
                           [email |-> StringGet(form, "email")])>>
    IN  IF ~GetTruthy(form, "email")
        THEN Outcome(Json(400, <<"Please provide an email.">>, <<>>, ""),
                     sess, <<>>)
        ELSE IF res.kind = "throw"
        THEN Outcome(Json(400, <<NetworkError>>, <<>>, ""), sess, mutation)
        ELSE Outcome(Json(200, <<>>, <<>>, "resetRequested"), sess, mutation)

----------------------------------------------------------------------------
(* /account/reset/:id/:resetToken *)

ResetAction(method, params, form, res, sess) ==
    IF method # "POST"
    THEN Outcome(Json(405, <<"Method not allowed">>, <<>>, ""), sess, <<>>)
    ELSE
    LET id == Param(params, "id")
        resetToken == Param(params, "resetToken")
        password == IF Has(form, "password") THEN form["password"] ELSE ""
        passwordConfirm ==
            IF Has(form, "passwordConfirm") THEN form["passwordConfirm"]
            ELSE ""
        validInputs == Truthy(password) /\ Truthy(passwordConfirm)
        mutation == <<Call("customerReset", "", id,
                           [password |-> password,
                            resetToken |-> resetToken])>>
    IN  IF ~Truthy(id) \/ ~Truthy(resetToken)
        THEN Outcome(Json(400, <<"customer token or id not found">>, <<>>, ""),
                     sess, <<>>)
        ELSE IF validInputs /\ password # passwordConfirm
        THEN Outcome(Json(400, <<"Please provide matching passwords">>,
                          <<>>, ""), sess, <<>>)
        ELSE IF res.kind = "throw"
        THEN Outcome(Json(400, <<NetworkError>>, <<>>, ""), sess, mutation)
        ELSE IF res.kind = "payload" /\ Len(res.errors) > 0
        THEN Outcome(Json(400, <<res.errors[1]>>, <<>>, ""), sess, mutation)
        ELSE IF ~(res.kind = "payload" /\ res.token.present)
        THEN Outcome(Json(400, <<"Access token not found. Please try again.">>,
                          <<>>, ""), sess, mutation)
        ELSE Outcome(Redirect(302, "/account", Commit(res.token)),
                     res.token, mutation)

----------------------------------------------------------------------------
(* /account/addresses *)

AddressIds == {"", "gid:1", "gid%3A2", "%"}

\* decodeURIComponent throws URIError on a malformed escape
Malformed(s) == s = "%"
URIErrorMessage == "URI malformed"

\* the MailingAddressInput built from the form: the string fields among keys
AddressKeys == {"address1", "zip"}
AddressInput(form) ==
    [k \in (DOMAIN form) \cap AddressKeys |-> form[k]]

AddressResults ==
    {Throw, NullPayload} \cup
    {Result("payload", NoToken, e, o) :
        e \in {<<>>, <<"Invalid input">>}, o \in {"", "gid:1", "gid%3A2"}}

DefaultAddressResults ==
    {Throw, NullPayload} \cup
    {Result("payload", NoToken, e, "") : e \in {<<>>, <<"Invalid input">>}}

HasUserErrors(res) == res.kind = "payload" /\ Len(res.errors) > 0

\* case 'POST'
AddressCreate(addressId, accessToken, defaultAddress, address, res, res2, sess) ==
    LET create == Call("customerAddressCreate", accessToken, "", address)
        createdId == IF res.kind = "payload" THEN res.obj ELSE ""
        setDefault == Call("customerDefaultAddressUpdate", accessToken,
                           DecodeURIComponent(createdId), <<>>)
    IN  IF res.kind = "throw"
        THEN Outcome(JsonKeyed(400, addressId, <<NetworkError>>), sess,
                     <<create>>)
        ELSE IF HasUserErrors(res)
        THEN Outcome(JsonKeyed(400, addressId, <<res.errors[1]>>), sess,
                     <<create>>)
        ELSE IF ~Truthy(createdId)
        THEN Outcome(JsonKeyed(400, addressId,
                 <<"Expected customer address to be created, but the id is missing">>),
                 sess, <<create>>)
        ELSE IF ~defaultAddress
        THEN Outcome(Json(200, <<>>, <<>>, "createdAddress"), sess, <<create>>)
        ELSE IF Malformed(createdId)
        THEN Outcome(JsonKeyed(400, addressId, <<URIErrorMessage>>), sess,
                     <<create>>)
        ELSE IF res2.kind = "throw"
        THEN Outcome(JsonKeyed(400, addressId, <<NetworkError>>), sess,
                     <<create, setDefault>>)
        ELSE IF HasUserErrors(res2)
        THEN Outcome(JsonKeyed(400, addressId, <<res2.errors[1]>>), sess,
                     <<create, setDefault>>)
        ELSE Outcome(Json(200, <<>>, <<>>, "createdAddress"), sess,
                     <<create, setDefault>>)

\* variant: the default address is set whatever the update returned
AddressUpdateThenDefault(addressId, accessToken, defaultAddress, address, res, res2, sess) ==
    LET update == Call("customerAddressUpdate", accessToken,
                       DecodeURIComponent(addressId), address)
        setDefault == Call("customerDefaultAddressUpdate", accessToken,
                           DecodeURIComponent(addressId), <<>>)
    IN  IF Malformed(addressId)
        THEN Outcome(JsonKeyed(400, addressId, <<URIErrorMessage>>), sess, <<>>)
        ELSE IF res.kind = "throw"
        THEN Outcome(JsonKeyed(400, addressId, <<NetworkError>>), sess,
                     <<update>>)
        ELSE IF ~defaultAddress
        THEN Outcome(Json(200, <<>>, <<>>, "updatedAddress"), sess, <<update>>)
        ELSE IF res2.kind = "throw"
        THEN Outcome(JsonKeyed(400, addressId, <<NetworkError>>), sess,
                     <<update, setDefault>>)
        ELSE IF HasUserErrors(res2) \/ HasUserErrors(res)
        THEN Outcome(JsonKeyed(400, addressId, <<"Unidentified customer">>),
                     sess, <<update, setDefault>>)
        ELSE Outcome(Json(200, <<>>, <<>>, "updatedAddress"), sess,
                     <<update, setDefault>>)

\* case 'PUT'
AddressUpdate(addressId, accessToken, defaultAddress, address, res, res2, sess) ==
    LET update == Call("customerAddressUpdate", accessToken,
                       DecodeURIComponent(addressId), address)
        setDefault == Call("customerDefaultAddressUpdate", accessToken,
                           DecodeURIComponent(addressId), <<>>)
    IN  IF Malformed(addressId)
        THEN Outcome(JsonKeyed(400, addressId, <<URIErrorMessage>>), sess, <<>>)
        ELSE IF res.kind = "throw"
        THEN Outcome(JsonKeyed(400, addressId, <<NetworkError>>), sess,
                     <<update>>)
        ELSE IF HasUserErrors(res)
        THEN Outcome(JsonKeyed(400, addressId, <<res.errors[1]>>), sess,
                     <<update>>)
        ELSE IF ~defaultAddress
        THEN Outcome(Json(200, <<>>, <<>>, "updatedAddress"), sess, <<update>>)
        ELSE IF res2.kind = "throw"
        THEN Outcome(JsonKeyed(400, addressId, <<NetworkError>>), sess,
                     <<update, setDefault>>)
        ELSE IF HasUserErrors(res2)
        THEN Outcome(JsonKeyed(400, addressId, <<res2.errors[1]>>), sess,
                     <<update, setDefault>>)
        ELSE Outcome(Json(200, <<>>, <<>>, "updatedAddress"), sess,
                     <<update, setDefault>>)

\* variant: a delete that threw is attempted once more
AddressDeleteRetry(addressId, accessToken, res, sess) ==
    LET delete == Call("customerAddressDelete", accessToken, addressId, <<>>)
    IN  IF res.kind = "throw"
        THEN Outcome(JsonKeyed(400, addressId, <<NetworkError>>), sess,
                     <<delete, delete>>)
        ELSE IF HasUserErrors(res)
        THEN Outcome(JsonKeyed(400, addressId, <<res.errors[1]>>), sess,
                     <<delete>>)
        ELSE Outcome(Json(200, <<>>, <<>>, "deletedAddress"), sess, <<delete>>)

\* case 'DELETE'
AddressDelete(addressId, accessToken, res, sess) ==
    LET delete == Call("customerAddressDelete", accessToken, addressId, <<>>)
    IN  IF res.kind = "throw"
        THEN Outcome(JsonKeyed(400, addressId, <<NetworkError>>), sess,
                     <<delete>>)
        ELSE IF HasUserErrors(res)
        THEN Outcome(JsonKeyed(400, addressId, <<res.errors[1]>>), sess,
                     <<delete>>)
        ELSE Outcome(Json(200, <<>>, <<>>, "deletedAddress"), sess, <<delete>>)

\* variant: the token check is left out
UnauthorizedNever(sess) == FALSE

\* !customerAccessToken, for the token read from the session
Unauthorized(sess) == ~sess.present

AddressesAction(method, form, res, res2, sess) ==
    LET addressId == IF Has(form, "addressId") THEN form["addressId"] ELSE ""
        accessToken == sess.accessToken
        defaultAddress ==
            Has(form, "defaultAddress") /\ form["defaultAddress"] = "on"
        address == AddressInput(form)
    IN  IF ~Truthy(addressId)
        THEN Outcome(Json(400, <<"You must provide an address id.">>, <<>>, ""),
                     sess, <<>>)
        ELSE IF Unauthorized(sess)
        THEN Outcome(JsonKeyed(401, addressId, <<"Unauthorized">>), sess, <<>>)
        ELSE IF method = "POST"
        THEN AddressCreate(addressId, accessToken, defaultAddress, address,
                           res, res2, sess)
        ELSE IF method = "PUT"
        THEN AddressUpdate(addressId, accessToken, defaultAddress, address,
                           res, res2, sess)
        ELSE IF method = "DELETE"
        THEN AddressDelete(addressId, accessToken, res, sess)
        ELSE Outcome(JsonKeyed(405, addressId, <<"Method not allowed">>),
                     sess, <<>>)

----------------------------------------------------------------------------
(* /account/profile *)

\* getPassword: the Error it throws, "" when it throws none
PasswordError(form) ==
    LET newPassword == GetTruthy(form, "newPassword")
        currentPassword == GetTruthy(form, "currentPassword")
    IN  IF newPassword /\ currentPassword
           /\ form["newPassword"] = form["currentPassword"]
        THEN "New password must be different than current password."
        ELSE IF newPassword
                /\ ~(Has(form, "newPasswordConfirm")
                     /\ form["newPassword"] = form["newPasswordConfirm"])
        THEN "New passwords must match."
        ELSE IF newPassword /\ ~currentPassword
        THEN "Current password is required."
        ELSE ""

\* getPassword: the string it returns when it throws nothing
getPassword(form) ==
    IF GetTruthy(form, "currentPassword") /\ GetTruthy(form, "newPassword")
    THEN form["newPassword"]
    ELSE StringGet(form, "currentPassword")

validInputKeys == {"firstName", "lastName", "email", "password", "phone"}

\* the CustomerUpdateInput: the non-empty form entries under a valid key
\* (the acceptsMarketing branch sits behind the key filter), then the
\* password of getPassword when it is truthy
CustomerInput(form) ==
    LET kept == {k \in (DOMAIN form) \cap validInputKeys : form[k] # ""}
        password == getPassword(form)
        keys == IF Truthy(password) THEN kept \cup {"password"} ELSE kept
    IN  [k \in keys |->
            IF k = "password" /\ Truthy(password) THEN password ELSE form[k]]

ProfileAction(method, form, res, sess) ==
    IF method # "PUT"
    THEN Outcome(Json(405, <<"Method not allowed">>, <<>>, ""), sess, <<>>)
    ELSE IF Unauthorized(sess)
    THEN Outcome(Json(401, <<"Unauthorized">>, <<>>, ""), sess, <<>>)
    ELSE IF PasswordError(form) # ""
    THEN Outcome(Json(400, <<PasswordError(form)>>, <<>>, ""), sess, <<>>)
    ELSE
    LET mutation == <<Call("customerUpdate", sess.accessToken, "",
                           CustomerInput(form))>>
        updated == IF res.kind = "payload" /\ res.token.present
                      /\ Truthy(res.token.accessToken)
                   THEN res.token ELSE sess
    IN  IF res.kind = "throw"
        THEN Outcome(Json(400, <<NetworkError>>, <<>>, ""), sess, mutation)
        ELSE IF HasUserErrors(res)
        THEN Outcome(Json(400, <<res.errors[1]>>, <<>>, ""), sess, mutation)
        ELSE Outcome(Json(200, <<>>, Commit(updated), "customer"),
                     updated, mutation)

----------------------------------------------------------------------------
(* /account (layout), /account/orders, /account/orders/:id *)

CustomerResults ==
    {Throw, NullPayload, Result("payload", NoToken, <<>>, "customer")}

AccountPaths ==
    {"/account", "/account/", "/account/orders", "/account/orders/1",
     "/account/profile", "/account/profile/x", "/account/addresses",
     "/account/addresses/1", "/account/login", "/account/recover"}

isAccountHome(pathname) == pathname \in {"/account", "/account/"}

\* variant: only the orders and addresses subtrees are private
isPrivateRouteNoProfile(pathname) ==
    pathname \in {"/account/orders", "/account/orders/1",
                  "/account/addresses", "/account/addresses/1"}

\* /^\/account\/(orders|orders\/.*|profile|addresses|addresses\/.*)$/
isPrivateRoute(pathname) ==
    pathname \in {"/account/orders", "/account/orders/1", "/account/profile",
                  "/account/addresses", "/account/addresses/1"}

\* variant: the redirect of a session without accessToken carries no cookie
AccountLoaderNoCommit(pathname, res, sess) ==
    LET isLoggedIn == sess.present /\ Truthy(sess.accessToken)
        query == <<Call("customer", sess.accessToken, "", <<>>)>>
    IN  IF ~isLoggedIn
        THEN IF isPrivateRoute(pathname) \/ isAccountHome(pathname)
             THEN Outcome(Redirect(302, "/account/login", <<>>), NoToken, <<>>)
             ELSE Outcome(Json(200, <<>>, <<>>, "public"), sess, <<>>)
        ELSE IF isAccountHome(pathname)
        THEN Outcome(Redirect(302, "/account/orders", <<>>), sess, <<>>)
        ELSE IF res.kind = "payload"
        THEN Outcome(Json(200, <<>>, <<>>, "customer"), sess, query)
        ELSE Outcome(Redirect(302, "/account/login", Commit(NoToken)),
                     NoToken, query)

AccountLoader(pathname, res, sess) ==
    LET isLoggedIn == sess.present /\ Truthy(sess.accessToken)
        query == <<Call("customer", sess.accessToken, "", <<>>)>>
    IN  IF ~isLoggedIn
        THEN IF isPrivateRoute(pathname) \/ isAccountHome(pathname)
             THEN Outcome(Redirect(302, "/account/login", Commit(NoToken)),
                          NoToken, <<>>)
             ELSE Outcome(Json(200, <<>>, <<>>, "public"), sess, <<>>)
        ELSE IF isAccountHome(pathname)
        THEN Outcome(Redirect(302, "/account/orders", <<>>), sess, <<>>)
        ELSE IF res.kind = "payload"
        THEN Outcome(Json(200, <<>>, <<>>, "customer"), sess, query)
        ELSE Outcome(Redirect(302, "/account/login", Commit(NoToken)),
                     NoToken, query)

\* variant: a failed orders query is swallowed
OrdersLoaderSwallow(res, sess) ==
    LET query == <<Call("customerOrders", sess.accessToken, "", <<>>)>>
    IN  IF ~(sess.present /\ Truthy(sess.accessToken))
        THEN Outcome(Redirect(302, "/account/login", <<>>), sess, <<>>)
        ELSE IF res.kind = "null"
        THEN Outcome(Json(400, <<"Customer not found">>, <<>>, ""), sess, query)
        ELSE Outcome(Json(200, <<>>, <<>>, "customer"), sess, query)

OrdersLoader(res, sess) ==
    LET query == <<Call("customerOrders", sess.accessToken, "", <<>>)>>
    IN  IF ~(sess.present /\ Truthy(sess.accessToken))
        THEN Outcome(Redirect(302, "/account/login", <<>>), sess, <<>>)
        ELSE IF res.kind = "throw"
        THEN Outcome(Json(400, <<NetworkError>>, <<>>, ""), sess, query)
        ELSE IF res.kind = "null"
        THEN Outcome(Json(400, <<"Customer not found">>, <<>>, ""), sess, query)
        ELSE Outcome(Json(200, <<>>, <<>>, "customer"), sess, query)

\* atob throws on a string that is not base64
OrderIds == {"b3JkZXIx", "!"}
NotBase64(s) == s = "!"

OrderResults ==
    {Throw, NullPayload, Result("payload", NoToken, <<>>, "order")}

\* variant: the order query is issued whatever the session holds
OrderLoaderNoSession(params, res, sess) ==
    LET id == Param(params, "id")
        query == <<Call("customerOrder", "", id, <<>>)>>
    IN  IF ~Truthy(id)
        THEN Outcome(Redirect(302, "/account/orders", <<>>), sess, <<>>)
        ELSE IF NotBase64(id)
        THEN Outcome(Uncaught("Invalid character"), sess, <<>>)
        ELSE IF res.kind = "throw"
        THEN Outcome(Uncaught(NetworkError), sess, query)
        ELSE IF res.kind = "null"
        THEN Outcome(Thrown(404, <<"Order not found">>), sess, query)
        ELSE Outcome(Json(200, <<>>, <<>>, "order"), sess, query)

OrderLoader(params, res, sess) ==
    LET id == Param(params, "id")
        query == <<Call("customerOrder", "", id, <<>>)>>
    IN  IF ~Truthy(id)
        THEN Outcome(Redirect(302, "/account/orders", <<>>), sess, <<>>)
        ELSE IF NotBase64(id)
        THEN Outcome(Uncaught("Invalid character"), sess, <<>>)
        ELSE IF ~sess.present
        THEN Outcome(Redirect(302, "/account/login", <<>>), sess, <<>>)
        ELSE IF res.kind = "throw"
        THEN Outcome(Uncaught(NetworkError), sess, query)
        ELSE IF res.kind = "null"
        THEN Outcome(Thrown(404, <<"Order not found">>), sess, query)
        ELSE Outcome(Json(200, <<>>, <<>>, "order"), sess, query)

----------------------------------------------------------------------------
(* /blogs/:blogHandle, /blogs/:blogHandle/:articleHandle, /policies,
   /collections/:handle *)

\* obj "" is a blog without articles (without the article asked for)
BlogResults ==
    {Throw, NullPayload} \cup
    {Result("payload", NoToken, <<>>, o) : o \in {"", "articles"}}

BlogLoader(params, res, sess) ==
    LET blogHandle == Param(params, "blogHandle")
        query == <<Call("blog", "", blogHandle, <<>>)>>
    IN  IF ~Truthy(blogHandle)
        THEN Outcome(Thrown(404, <<"blog not found">>), sess, <<>>)
        ELSE IF res.kind = "throw"
        THEN Outcome(Uncaught(NetworkError), sess, query)
        ELSE IF ~(res.kind = "payload" /\ Truthy(res.obj))
        THEN Outcome(Thrown(404, <<"Not found">>), sess, query)
        ELSE Outcome(Json(200, <<>>, <<>>, "blog"), sess, query)

ArticleLoader(params, res, sess) ==
    LET blogHandle == Param(params, "blogHandle")
        articleHandle == Param(params, "articleHandle")
        query == <<Call("article", "", articleHandle, <<>>)>>
    IN  IF ~Truthy(articleHandle) \/ ~Truthy(blogHandle)
        THEN Outcome(Thrown(404, <<"Not found">>), sess, <<>>)
        ELSE IF res.kind = "throw"
        THEN Outcome(Uncaught(NetworkError), sess, query)
        ELSE IF ~(res.kind = "payload" /\ Truthy(res.obj))
        THEN Outcome(Thrown(404, <<>>), sess, query)
        ELSE Outcome(Json(200, <<>>, <<>>, "article"), sess, query)

\* obj "" is a shop without policies
PoliciesLoader(res, sess) ==
    LET query == <<Call("policies", "", "", <<>>)>>
    IN  IF res.kind = "throw"
        THEN Outcome(Uncaught(NetworkError), sess, query)
        ELSE IF ~(res.kind = "payload" /\ Truthy(res.obj))
        THEN Outcome(Thrown(404, <<"No policies found">>), sess, query)
        ELSE Outcome(Json(200, <<>>, <<>>, "policies"), sess, query)

\* the search parameters of the request's URL, in the order of the URL
Search(params) == IF Has(params, "search") THEN params["search"] ELSE <<>>

\* The strings of a filter are sequences of characters.
UrlParam(key, value) == [key |-> key, value |-> value]
StrTrue == <<"t", "r", "u", "e">>
StrFalse == <<"f", "a", "l", "s", "e">>
Undefined == <<"undefined">>

\* URLSearchParams.toString: the value is form-urlencoded
EncodeChar(c) ==
    CASE c = ":" -> <<"%", "3", "A">>
      [] c = "+" -> <<"%", "2", "B">>
      [] c = "%" -> <<"%", "2", "5">>
      [] c = " " -> <<"+">>
      [] OTHER -> <<c>>

RECURSIVE Encode(_)
Encode(s) ==
    IF s = <<>> THEN <<>> ELSE EncodeChar(Head(s)) \o Encode(Tail(s))

toString(params) ==
    [i \in 1..Len(params) |-> UrlParam(params[i].key, Encode(params[i].value))]

\* new URL(request.url).searchParams: the value is decoded
Unescape(hex) ==
    CASE hex = <<"3", "A">> -> ":"
      [] hex = <<"2", "B">> -> "+"
      [] hex = <<"2", "5">> -> "%"
      [] OTHER -> "?"

RECURSIVE Decode(_)
Decode(s) ==
    IF s = <<>> THEN <<>>
    ELSE IF Head(s) = "+" THEN <<" ">> \o Decode(Tail(s))
    ELSE IF Head(s) = "%" /\ Len(s) >= 3
    THEN <<Unescape(SubSeq(s, 2, 3))>> \o Decode(SubSeq(s, 4, Len(s)))
    ELSE <<Head(s)>> \o Decode(Tail(s))

URLSearchParams(url) ==
    [i \in 1..Len(url) |-> UrlParam(url[i].key, Decode(url[i].value))]

\* URLSearchParams.set: the first entry of the key takes the value, the
\* others go; without an entry the pair is appended
Set(params, key, value) ==
    IF \E i \in 1..Len(params) : params[i].key = key
    THEN LET first == CHOOSE i \in 1..Len(params) :
                          /\ params[i].key = key
                          /\ \A j \in 1..(i - 1) : params[j].key # key
             kept == {i \in 1..Len(params) :
                         params[i].key # key \/ i = first}
             index(n) == CHOOSE i \in kept :
                             Cardinality({j \in kept : j <= i}) = n
         IN  [n \in 1..Cardinality(kept) |->
                 IF index(n) = first THEN UrlParam(key, value)
                 ELSE params[index(n)]]
    ELSE Append(params, UrlParam(key, value))

\* one entry of a LIST filter input: a string, a boolean or a variant option
FilterEntry(key, typeof, value) ==
    [key |-> key, typeof |-> typeof, value |-> value]

\* filterInputToParams, case 'LIST', for one entry of the input
ListEntryToParams(params, entry) ==
    IF entry.typeof = "string" THEN Set(params, entry.key, entry.value)
    ELSE IF entry.typeof = "boolean"
    THEN Set(params, entry.key, IF entry.value THEN StrTrue ELSE StrFalse)
    ELSE LET newVariant == entry.value.name \o <<":">> \o entry.value.value
         IN  IF \E i \in 1..Len(params) :
                    /\ params[i].key = "variantOption"
                    /\ params[i].value = newVariant
             THEN params
             ELSE Append(params, UrlParam("variantOption", newVariant))

RECURSIVE ListToParams(_, _)
ListToParams(params, entries) ==
    IF entries = <<>> THEN params
    ELSE ListToParams(ListEntryToParams(params, Head(entries)),
                      Tail(entries))

\* filterInputToParams: a price bound is set when it is truthy
filterInputToParams(type, input, params) ==
    IF type = "LIST" THEN ListToParams(params, input)
    ELSE LET price == input[1].value
             withMin == IF price.min \notin {<<>>, <<"0">>}
                        THEN Set(params, "minPrice", price.min) ELSE params
         IN  IF price.max \notin {<<>>, <<"0">>}
             THEN Set(withMin, "maxPrice", price.max) ELSE withMin

CollectionResults ==
    {Throw, NullPayload, Result("payload", NoToken, <<>>, "collection")}

\* variant: a null collection is handed to the page
CollectionLoaderNoCheck(params, res, sess) ==
    LET handle == Param(params, "handle")
        query == <<Call("collection", "", handle, <<>>)>>
    IN  IF ~Truthy(handle)
        THEN Outcome(Redirect(302, "/collections", <<>>), sess, <<>>)
        ELSE IF res.kind = "throw"
        THEN Outcome(Uncaught(NetworkError), sess, query)
        ELSE Outcome(Json(200, <<>>, <<>>, "collection"), sess, query)

\* value.split(':')
RECURSIVE Split(_, _)
Split(s, separator) ==
    IF \A i \in 1..Len(s) : s[i] # separator THEN <<s>>
    ELSE LET at == CHOOSE i \in 1..Len(s) :
                       /\ s[i] = separator
                       /\ \A j \in 1..(i - 1) : s[j] # separator
         IN  <<SubSeq(s, 1, at - 1)>>
                 \o Split(SubSeq(s, at + 1, Len(s)), separator)

Filter(key, name, value) == [key |-> key, name |-> name, value |-> value]

\* the filter of one search parameter: available, a known filter or a
\* variant option whose value is cut at its colons, <<>> for any other key
EntryFilters(entry) ==
    IF entry.key = "available"
    THEN <<Filter("available", <<>>,
                  IF entry.value = StrTrue THEN StrTrue ELSE StrFalse)>>
    ELSE IF entry.key \in {"productVendor", "productType"}
    THEN <<Filter(entry.key, <<>>, entry.value)>>
    ELSE IF entry.key = "variantOption"
    THEN LET parts == Split(entry.value, ":")
         IN  <<Filter("variantOption", parts[1],
                      IF Len(parts) >= 2 THEN parts[2] ELSE Undefined)>>
    ELSE <<>>

RECURSIVE ListFilters(_)
ListFilters(entries) ==
    IF entries = <<>> THEN <<>>
    ELSE EntryFilters(Head(entries)) \o ListFilters(Tail(entries))

\* searchParams.get
Get(params, key) ==
    IF \E i \in 1..Len(params) : params[i].key = key
    THEN params[CHOOSE i \in 1..Len(params) :
                    /\ params[i].key = key
                    /\ \A j \in 1..(i - 1) : params[j].key # key].value
    ELSE Undefined

\* Number(value) || 0 on the prices of the model
PriceNumber(value) == IF value = <<"5">> THEN 5 ELSE 0

\* the price filter carries the bounds the URL names
PriceFilters(params) ==
    LET hasMin == Get(params, "minPrice") # Undefined
        hasMax == Get(params, "maxPrice") # Undefined
    IN  IF hasMin \/ hasMax
        THEN <<Filter("price",
                      IF hasMin
                      THEN <<PriceNumber(Get(params, "minPrice"))>>
                      ELSE <<>>,
                      IF hasMax
                      THEN <<PriceNumber(Get(params, "maxPrice"))>>
                      ELSE <<>>)>>
        ELSE <<>>

\* filters: the filters variable of COLLECTION_QUERY
Filters(url) ==
    ListFilters(URLSearchParams(url)) \o PriceFilters(URLSearchParams(url))

AppliedFilter(label, key, value) ==
    [label |-> label, urlParam |-> UrlParam(key, value)]

\* the applied filter of one search parameter
EntryApplied(entry) ==
    IF entry.key = "available"
    THEN <<AppliedFilter(IF entry.value = StrTrue THEN <<"In stock">>
                         ELSE <<"Out of stock">>, "available", entry.value)>>
    ELSE IF entry.key \in {"productVendor", "productType"}
    THEN <<AppliedFilter(entry.value, entry.key, entry.value)>>
    ELSE IF entry.key = "variantOption"
    THEN LET parts == Split(entry.value, ":")
         IN  <<AppliedFilter(IF Len(parts) >= 2 THEN parts[2] ELSE Undefined,
                             entry.key, entry.value)>>
    ELSE <<>>

RECURSIVE ListApplied(_)
ListApplied(entries) ==
    IF entries = <<>> THEN <<>>
    ELSE EntryApplied(Head(entries)) \o ListApplied(Tail(entries))

\* the applied price filters carry the value the URL names
PriceApplied(params) ==
    (IF Get(params, "minPrice") # Undefined
     THEN <<AppliedFilter(<<"Min", PriceNumber(Get(params, "minPrice"))>>,
                          "minPrice", Get(params, "minPrice"))>>
     ELSE <<>>)
    \o
    (IF Get(params, "maxPrice") # Undefined
     THEN <<AppliedFilter(<<"Max", PriceNumber(Get(params, "maxPrice"))>>,
                          "maxPrice", Get(params, "maxPrice"))>>
     ELSE <<>>)

\* appliedFilters: what the loader hands to the filter panel
AppliedFiltersOf(url) ==
    ListApplied(URLSearchParams(url)) \o PriceApplied(URLSearchParams(url))

\* options.includes(value): value occurs in options as a substring
Includes(options, value) ==
    \E i \in 0..(Len(options) - Len(value)) :
        SubSeq(options, i + 1, i + Len(value)) = value

\* getAppliedFilterLink: the search parameters of the link that removes an
\* applied filter; the variantOption entries that are kept move to the end
getAppliedFilterLink(filter, params) ==
    LET IsVariant(e) == e.key = "variantOption"
        NotVariant(e) == e.key # "variantOption"
        Filtered(e) == IsVariant(e) /\ ~Includes(e.value, filter.urlParam.value)
        OtherKey(e) == e.key # filter.urlParam.key
    IN  IF filter.urlParam.key = "variantOption"
        THEN SelectSeq(params, NotVariant) \o SelectSeq(params, Filtered)
        ELSE SelectSeq(params, OtherKey)

CollectionLoader(params, res, sess) ==
    LET handle == Param(params, "handle")
        query == <<Call("collection", "", handle, Filters(Search(params)))>>
        data == [collection |-> "collection",
                 appliedFilters |-> AppliedFiltersOf(Search(params))]
    IN  IF ~Truthy(handle)
        THEN Outcome(Redirect(302, "/collections", <<>>), sess, <<>>)
        ELSE IF res.kind = "throw"
        THEN Outcome(Uncaught(NetworkError), sess, query)
        ELSE IF res.kind = "null"
        THEN Outcome(Thrown(404, <<"Collection not found">>), sess, query)
        ELSE Outcome(Json(200, <<>>, <<>>, data), sess, query)

----------------------------------------------------------------------------
(* /products/:handle *)

Option(name, value) == [name |-> name, value |-> value]
Variant(id, options, available) ==
    [id |-> id, selectedOptions |-> options, availableForSale |-> available]

NoVariant == Variant("", <<>>, FALSE)
DefaultVariant ==
    Variant("v0", <<Option("Title", "Default Title")>>, TRUE)
RedVariant == Variant("v1", <<Option("Color", "Red")>>, TRUE)
BlueVariant == Variant("v2", <<Option("Color", "Blue")>>, FALSE)

Product(id, nodes, selected) ==
    [id |-> id, nodes |-> nodes, selectedVariant |-> selected]
NoProduct == Product("", <<>>, NoVariant)

\* product: the product of PRODUCT_QUERY, its first variants and the variant
\* the storefront found for the selected options (NoVariant: null)
ProductPayloads ==
    {Product(id, nodes, sel) :
        id \in {"", "p1"},
        nodes \in {<<DefaultVariant>>, <<RedVariant, BlueVariant>>,
                   <<BlueVariant, RedVariant>>},
        sel \in {NoVariant, RedVariant, BlueVariant}}

ProductResults ==
    {[kind |-> "throw", product |-> NoProduct],
     [kind |-> "null", product |-> NoProduct]} \cup
    {[kind |-> "payload", product |-> p] : p \in ProductPayloads}

firstVariantIsDefault(product) ==
    \E i \in 1..Len(product.nodes[1].selectedOptions) :
        /\ product.nodes[1].selectedOptions[i].name = "Title"
        /\ product.nodes[1].selectedOptions[i].value = "Default Title"

\* the product of the response, with product.selectedVariant as the loader
\* leaves it
LoadedProduct(product) ==
    IF firstVariantIsDefault(product)
    THEN Product(product.id, product.nodes, product.nodes[1])
    ELSE product

\* the search parameters of predictive search are not product options
\* (name.startsWith over the listed prefixes)
IsProductOption(option) ==
    option.name \notin {"_sid", "_pos", "_psq", "_ss", "_v"}

\* getVariantUrl: the product's path with every selected option set in the
\* search parameters of the request
SetOption(search, option) ==
    IF \E i \in 1..Len(search) : search[i].name = option.name
    THEN [i \in 1..Len(search) |->
             IF search[i].name = option.name THEN option ELSE search[i]]
    ELSE Append(search, option)

RECURSIVE SetOptions(_, _)
SetOptions(search, options) ==
    IF options = <<>> THEN search
    ELSE SetOptions(SetOption(search, Head(options)), Tail(options))

getVariantUrl(handle, selectedOptions, searchParams) ==
    [pathname |-> <<"products", handle>>,
     search |-> SetOptions(searchParams, selectedOptions)]

\* redirectToFirstVariant
redirectToFirstVariant(product, handle, search) ==
    Redirect(302, getVariantUrl(handle, product.nodes[1].selectedOptions,
                                search), <<>>)

\* variant: the product is returned with the selected variant of the query
ProductLoaderNoRedirect(params, res, sess) ==
    LET handle == Param(params, "handle")
        selectedOptions == SelectSeq(Search(params), IsProductOption)
        productQuery == Call("product", "", handle, selectedOptions)
        variantsQuery == Call("variants", "", handle, <<>>)
        product == res.product
    IN  IF ~Truthy(handle)
        THEN Outcome(Uncaught("Expected product handle to be defined"),
                     sess, <<>>)
        ELSE IF res.kind = "throw"
        THEN Outcome(Uncaught(NetworkError), sess, <<productQuery>>)
        ELSE IF ~(res.kind = "payload" /\ Truthy(product.id))
        THEN Outcome(Thrown(404, <<>>), sess, <<productQuery, variantsQuery>>)
        ELSE Outcome(Defer(<<>>, "product"), sess,
                     <<productQuery, variantsQuery>>)

\* the loader up to its response; the variants query is issued before the
\* product is looked at and is never awaited
ProductLoader(params, res, sess) ==
    LET handle == Param(params, "handle")
        selectedOptions == SelectSeq(Search(params), IsProductOption)
        productQuery == Call("product", "", handle, selectedOptions)
        variantsQuery == Call("variants", "", handle, <<>>)
        product == res.product
    IN  IF ~Truthy(handle)
        THEN Outcome(Uncaught("Expected product handle to be defined"),
                     sess, <<>>)
        ELSE IF res.kind = "throw"
        THEN Outcome(Uncaught(NetworkError), sess, <<productQuery>>)
        ELSE IF ~(res.kind = "payload" /\ Truthy(product.id))
        THEN Outcome(Thrown(404, <<>>), sess, <<productQuery, variantsQuery>>)
        ELSE IF ~firstVariantIsDefault(product)
                /\ product.selectedVariant = NoVariant
        THEN Outcome(redirectToFirstVariant(product, handle, Search(params)),
                     sess, <<productQuery, variantsQuery>>)
        ELSE Outcome(Defer(<<>>, "product"), sess,
                     <<productQuery, variantsQuery>>)

\* ProductForm
ProductForm(selectedVariant, variants) ==
    [shown |-> "form",
     variants |-> variants,
     selectedVariant |-> selectedVariant,
     disabled |-> selectedVariant = NoVariant
                  \/ ~selectedVariant.availableForSale,
     label |-> IF selectedVariant.availableForSale THEN "Add to cart"
               ELSE "Sold out"]

\* variant: the fallback lists the product's first variants
ProductMainFallbackNodes(product, variants) ==
    IF variants.state = "resolved"
    THEN ProductForm(product.selectedVariant, variants.value)
    ELSE IF variants.state = "rejected"
    THEN [shown |-> "There was a problem loading product variants",
          variants |-> <<>>, selectedVariant |-> NoVariant,
          disabled |-> TRUE, label |-> ""]
    ELSE ProductForm(product.selectedVariant, product.nodes)

\* ProductMain: the Suspense fallback while the variants are pending, the
\* Await children once resolved, its errorElement once rejected
ProductMain(product, variants) ==
    IF variants.state = "resolved"
    THEN ProductForm(product.selectedVariant, variants.value)
    ELSE IF variants.state = "rejected"
    THEN [shown |-> "There was a problem loading product variants",
          variants |-> <<>>, selectedVariant |-> NoVariant,
          disabled |-> TRUE, label |-> ""]
    ELSE ProductForm(product.selectedVariant, <<>>)

----------------------------------------------------------------------------
(* root *)

\* variant: a token that expires at this very instant counts as expired
validateCustomerAccessTokenStrict(sess, dateNow) ==
    IF ~(sess.present /\ Truthy(sess.accessToken)) \/ sess.expiresAt = 0
    THEN [isLoggedIn |-> FALSE, headers |-> <<>>, session |-> sess]
    ELSE IF sess.expiresAt <= dateNow
    THEN [isLoggedIn |-> FALSE, headers |-> Commit(NoToken),
          session |-> NoToken]
    ELSE [isLoggedIn |-> TRUE, headers |-> <<>>, session |-> sess]

\* validateCustomerAccessToken
validateCustomerAccessToken(sess, dateNow) ==
    IF ~(sess.present /\ Truthy(sess.accessToken)) \/ sess.expiresAt = 0
    THEN [isLoggedIn |-> FALSE, headers |-> <<>>, session |-> sess]
    ELSE IF sess.expiresAt < dateNow
    THEN [isLoggedIn |-> FALSE, headers |-> Commit(NoToken),
          session |-> NoToken]
    ELSE [isLoggedIn |-> TRUE, headers |-> <<>>, session |-> sess]

\* variant: the loader awaits the footer and cart queries as well
RootAwaitedAll(deferred) ==
    \A p \in {"header", "footer", "cart"} : deferred[p].state # "pending"

\* await headerPromise: the loader goes on once the header query settled
RootAwaited(deferred) == deferred["header"].state # "pending"

\* the response of the root loader once the header query has settled
RootResponse(header, hdrs) ==
    IF header.state = "resolved"
    THEN Defer(hdrs, "layout")
    ELSE Uncaught(NetworkError)

\* Layout: the footer sits in an Await on the footer promise
Layout(response, footer) ==
    [header |-> response.kind = "defer",
     footer |-> response.kind = "defer" /\ footer.state = "resolved"]

----------------------------------------------------------------------------
(* The machine *)

\* no request is being handled: the last response has been consumed
Idle ==
    /\ resp.kind = "none"
    /\ \A p \in DOMAIN promises : promises[p].state = "none"

Promise(state, value) == [state |-> state, value |-> value]
NoPromises ==
    [p \in {"header", "cart", "footer", "variants"} |-> Promise("none", <<>>)]
Pending == Promise("pending", <<>>)

NoForm == [k \in {} |-> ""]

Request(route, method, form, params) ==
    [route |-> route, method |-> method, form |-> form, params |-> params,
     cookie |-> cookie]

NoRequest ==
    [route |-> "none", method |-> "GET", form |-> NoForm, params |-> NoForm,
     cookie |-> NoToken]

\* the browser keeps the cookie a response sets
Browser(r) == IF r.setCookie # <<>> THEN r.setCookie[1] ELSE cookie

\* a handler that awaits all its calls runs to its response
Handle(request, out, res) ==
    /\ req' = request
    /\ session' = out.session
    /\ calls' = out.calls
    /\ results' = SubSeq(res, 1, Len(out.calls))
    /\ resp' = out.resp
    /\ cookie' = Browser(out.resp)
    /\ promises' = NoPromises
    /\ streamed' = <<>>
    /\ headers' = <<>>
    /\ rootIsLoggedIn' = FALSE
    /\ page' = NoProduct
    /\ UNCHANGED <<now, trail>>

LoginLoad ==
    /\ Idle
    /\ Handle(Request("login.loader", "GET", NoForm, NoForm),
           LoginLoader(cookie), <<>>)

LoginSubmit ==
    /\ Idle
    /\ \E method \in Methods, form \in Forms({"email", "password"}, Strings),
       res \in TokenResults :
        Handle(Request("login.action", method, form, NoForm),
               LoginAction(method, form, res, cookie), <<res>>)

\* the request is over: its session object, its calls and its response are
\* dropped, the browser keeps the cookie
ActivateSubmit ==
    /\ Idle
    /\ \E method \in Methods,
       params \in Forms({"id", "activationToken"}, {"7"}),
       form \in Forms({"password", "passwordConfirm"}, Strings),
       res \in TokenResults :
        Handle(Request("activate.action", method, form, params),
               ActivateAction(method, params, form, res, cookie), <<res>>)

RecoverSubmit ==
    /\ Idle
    /\ \E method \in Methods, form \in Forms({"email"}, Strings),
       res \in TokenResults :
        Handle(Request("recover.action", method, form, NoForm),
               RecoverAction(method, form, res, cookie), <<res>>)

ResetSubmit ==
    /\ Idle
    /\ \E method \in Methods,
       params \in Forms({"id", "resetToken"}, {"7"}),
       form \in Forms({"password", "passwordConfirm"}, Strings),
       res \in TokenResults :
        Handle(Request("reset.action", method, form, params),
               ResetAction(method, params, form, res, cookie), <<res>>)

\* the forms whose field k takes its value in values[k]
FormsOf(values) ==
    UNION {{f \in [S -> UNION {values[k] : k \in S}] :
                \A k \in S : f[k] \in values[k]} :
           S \in SUBSET DOMAIN values}

AddressForms ==
    FormsOf([addressId |-> AddressIds, defaultAddress |-> {"on", "off"},
             address1 |-> {"1 Main St"}])

AddressesSubmit ==
    /\ Idle
    /\ \E method \in Methods, form \in AddressForms,
       res \in AddressResults, res2 \in DefaultAddressResults :
        Handle(Request("addresses.action", method, form, NoForm),
               AddressesAction(method, form, res, res2, cookie),
               <<res, res2>>)

ProfileForms ==
    FormsOf([firstName |-> {"", "Ann"}, password |-> {"a"},
             acceptsMarketing |-> {"on", "off"},
             currentPassword |-> Strings, newPassword |-> Strings,
             newPasswordConfirm |-> Strings])

ProfileSubmit ==
    /\ Idle
    /\ \E method \in Methods, form \in ProfileForms, res \in TokenResults :
        Handle(Request("profile.action", method, form, NoForm),
               ProfileAction(method, form, res, cookie), <<res>>)

AccountLoad ==
    /\ Idle
    /\ \E pathname \in AccountPaths, res \in CustomerResults :
        Handle(Request("account.loader", "GET", NoForm,
                       [pathname |-> pathname]),
               AccountLoader(pathname, res, cookie), <<res>>)

OrdersLoad ==
    /\ Idle
    /\ \E res \in CustomerResults :
        Handle(Request("orders.loader", "GET", NoForm, NoForm),
               OrdersLoader(res, cookie), <<res>>)

OrderLoad ==
    /\ Idle
    /\ \E params \in Forms({"id"}, OrderIds), res \in OrderResults :
        Handle(Request("order.loader", "GET", NoForm, params),
               OrderLoader(params, res, cookie), <<res>>)

BlogLoad ==
    /\ Idle
    /\ \E params \in Forms({"blogHandle"}, {"news"}), res \in BlogResults :
        Handle(Request("blog.loader", "GET", NoForm, params),
               BlogLoader(params, res, cookie), <<res>>)

ArticleLoad ==
    /\ Idle
    /\ \E params \in Forms({"blogHandle", "articleHandle"}, {"news"}),
          res \in BlogResults :
        Handle(Request("article.loader", "GET", NoForm, params),
               ArticleLoader(params, res, cookie), <<res>>)

PoliciesLoad ==
    /\ Idle
    /\ \E res \in BlogResults :
        Handle(Request("policies.loader", "GET", NoForm, NoForm),
               PoliciesLoader(res, cookie), <<res>>)

\* the names and values of variant options
OptionStrings ==
    {<<"a">>, <<"r", "e", "d">>, <<"1", "0", ":", "3", "0">>,
     <<"a", "+", "b">>, <<"5", "0", "%">>, <<"x", " ", "y">>}

\* the filter inputs of the links the filter panel offers
FilterInputs ==
    {[type |-> "LIST",
      input |-> <<FilterEntry("variantOption", "object", Option(n, v))>>] :
         n \in OptionStrings, v \in OptionStrings} \cup
    {[type |-> "LIST",
      input |-> <<FilterEntry("available", "boolean", b)>>] :
         b \in BOOLEAN} \cup
    {[type |-> "LIST",
      input |-> <<FilterEntry("productVendor", "string", <<"a", "+", "b">>)>>],
     [type |-> "PRICE_RANGE",
      input |-> <<FilterEntry("price", "object",
                              [min |-> <<"5">>, max |-> <<>>])>>],
     [type |-> "PRICE_RANGE",
      input |-> <<FilterEntry("price", "object",
                              [min |-> <<"0">>, max |-> <<"5">>])>>]}
NoFilter == [type |-> "none", input |-> <<>>]

\* the search parameters of the page that shows the links
CurrentParams ==
    {<<>>,
     <<UrlParam("variantOption", <<"a", ":", "r", "e", "d">>)>>,
     <<UrlParam("sort", <<"n", "e", "w">>),
       UrlParam("productVendor", <<"a">>)>>,
     <<UrlParam("variantOption", <<"a", ":", "r", "e", "d">>),
       UrlParam("productVendor", <<"a">>),
       UrlParam("variantOption", <<"a", ":", "r", "e", "d", "d", "y">>),
       UrlParam("productVendor", <<"b">>)>>}

\* getFilterLink: the URL of a filter link on that page, and the plain URL
FilterLinks ==
    {[filter |-> NoFilter, search |-> toString(p)] : p \in CurrentParams}
    \cup
    {[filter |-> f,
      search |-> toString(filterInputToParams(f.type, f.input, p))] :
         f \in FilterInputs, p \in CurrentParams}

WithLink(params, link) ==
    [k \in DOMAIN params \cup {"search", "filter"} |->
        IF k = "search" THEN link.search
        ELSE IF k = "filter" THEN link.filter ELSE params[k]]

CollectionLoad ==
    /\ Idle
    /\ \E route \in Forms({"handle"}, {"shoes"}), link \in FilterLinks,
          res \in CollectionResults :
        LET params == WithLink(route, link)
        IN  Handle(Request("collection.loader", "GET", NoForm, params),
                   CollectionLoader(params, res, cookie), <<res>>)

\* AppliedFilters: on a collection page the user follows the link that
\* removes one of the applied filters the loader returned
RemoveFilter ==
    /\ req.route = "collection.loader"
    /\ resp.kind = "json"
    /\ resp.status = 200
    /\ \E i \in 1..Len(resp.data.appliedFilters), res \in CollectionResults :
        LET filter == resp.data.appliedFilters[i]
            from == URLSearchParams(Search(req.params))
            search == toString(getAppliedFilterLink(filter, from))
            params == [k \in {"handle", "search", "filter", "removed",
                             "from"} |->
                          CASE k = "handle" -> req.params["handle"]
                            [] k = "search" -> search
                            [] k = "filter" -> NoFilter
                            [] k = "removed" -> filter
                            [] k = "from" -> from]
        IN  Handle(Request("collection.loader", "GET", NoForm, params),
                   CollectionLoader(params, res, cookie), <<res>>)

\* the search parameters of a product URL
SearchOptions ==
    {<<>>, <<Option("Color", "Red")>>, <<Option("Color", "Blue")>>,
     <<Option("Color", "Green")>>,
     <<Option("_sid", "x"), Option("Color", "Red")>>}

WithSearch(params, search) ==
    [k \in DOMAIN params \cup {"search"} |->
        IF k = "search" THEN search ELSE params[k]]

\* selectedVariant: variantBySelectedOptions(selectedOptions:
\* $selectedOptions): null, or a variant that has the options of the query
variantBySelectedOptions(product, queries) ==
    \/ product.selectedVariant = NoVariant
    \/ /\ queries # <<>>
       /\ product.selectedVariant.selectedOptions = queries[1].input

\* the product loader runs to its response and leaves the variants query
\* pending
ProductLoad ==
    /\ Idle
    /\ \E route \in Forms({"handle"}, {"shirt"}), search \in SearchOptions,
          res \in ProductResults :
        LET params == WithSearch(route, search)
            out == ProductLoader(params, res, cookie)
        IN  /\ variantBySelectedOptions(res.product, out.calls)
            /\ req' = Request("product.loader", "GET", NoForm, params)
            /\ session' = out.session
            /\ calls' = out.calls
            /\ results' = IF Len(out.calls) > 0 THEN <<res>> ELSE <<>>
            /\ resp' = out.resp
            /\ cookie' = Browser(out.resp)
            /\ promises' =
                   IF Len(out.calls) = 2
                   THEN [NoPromises EXCEPT !["variants"] = Pending]
                   ELSE NoPromises
            /\ page' = IF out.resp.kind = "defer"
                       THEN LoadedProduct(res.product) ELSE NoProduct
            /\ streamed' = <<>>
            /\ headers' = <<>>
            /\ rootIsLoggedIn' = FALSE
            /\ UNCHANGED <<now, trail>>

VariantsResults ==
    {Promise("rejected", <<>>), Promise("resolved", <<>>),
     Promise("resolved", <<DefaultVariant>>),
     Promise("resolved", <<RedVariant, BlueVariant>>)}

\* a deferred query settles; after the response its value is streamed
Settle(p, outcome) ==
    /\ promises[p].state = "pending"
    /\ promises' = [promises EXCEPT ![p] = outcome]
    /\ streamed' = IF resp.kind = "defer" THEN Append(streamed, p)
                   ELSE streamed

VariantsSettle ==
    /\ \E outcome \in VariantsResults : Settle("variants", outcome)
    /\ UNCHANGED <<cookie, now, req, session, calls, results, resp, headers,
                   rootIsLoggedIn, page, trail>>

MenuResults == {Promise("rejected", <<>>), Promise("resolved", <<"menu">>)}
CartResults ==
    {Promise("rejected", <<>>), Promise("resolved", <<>>),
     Promise("resolved", <<"cart">>)}

\* the root loader up to its await: the token is validated, the cart, footer
\* and header queries are issued
RootLoad ==
    /\ Idle
    /\ LET valid == validateCustomerAccessToken(cookie, now)
       IN  /\ session' = valid.session
           /\ headers' = valid.headers
           /\ rootIsLoggedIn' = valid.isLoggedIn
    /\ req' = Request("root.loader", "GET", NoForm, NoForm)
    /\ calls' = <<Call("cart", "", "", <<>>), Call("footer", "", "", <<>>),
                  Call("header", "", "", <<>>)>>
    /\ promises' = [NoPromises EXCEPT !["cart"] = Pending,
                                      !["footer"] = Pending,
                                      !["header"] = Pending]
    /\ UNCHANGED <<cookie, now, results, resp, streamed, page, trail>>

HeaderSettle ==
    /\ \E outcome \in MenuResults : Settle("header", outcome)
    /\ UNCHANGED <<cookie, now, req, session, calls, results, resp, headers,
                   rootIsLoggedIn, page, trail>>

\* the loader resumes after its await and returns (or throws)
RootReturn ==
    /\ req.route = "root.loader"
    /\ resp.kind = "none"
    /\ RootAwaited(promises)
    /\ resp' = RootResponse(promises["header"], headers)
    /\ cookie' = Browser(RootResponse(promises["header"], headers))
    /\ UNCHANGED <<now, req, session, calls, results, promises, streamed,
                   headers, rootIsLoggedIn, page, trail>>

CartSettle ==
    /\ \E outcome \in CartResults : Settle("cart", outcome)
    /\ UNCHANGED <<cookie, now, req, session, calls, results, resp, headers,
                   rootIsLoggedIn, page, trail>>

FooterSettle ==
    /\ \E outcome \in MenuResults : Settle("footer", outcome)
    /\ UNCHANGED <<cookie, now, req, session, calls, results, resp, headers,
                   rootIsLoggedIn, page, trail>>

Finish ==
    /\ resp.kind # "none"
    /\ \A p \in DOMAIN promises : promises[p].state # "pending"
    /\ req' = NoRequest
    /\ session' = NoToken
    /\ calls' = <<>>
    /\ results' = <<>>
    /\ resp' = NoResp
    /\ promises' = NoPromises
    /\ streamed' = <<>>
    /\ headers' = <<>>
    /\ rootIsLoggedIn' = FALSE
    /\ page' = NoProduct
    /\ trail' = <<>>
    /\ UNCHANGED <<cookie, now>>

Tick ==
    /\ Idle
    /\ now < MaxTime
    /\ now' = now + 1
    /\ UNCHANGED <<cookie, req, session, calls, results, resp, promises,
                   streamed, headers, rootIsLoggedIn, page, trail>>

Init ==
    /\ cookie = NoToken
    /\ now = 1
    /\ req = NoRequest
    /\ session = NoToken
    /\ calls = <<>>
    /\ results = <<>>
    /\ resp = NoResp
    /\ promises = NoPromises
    /\ streamed = <<>>
    /\ headers = <<>>
    /\ rootIsLoggedIn = FALSE
    /\ page = NoProduct
    /\ trail = <<>>

Next ==
    \/ LoginLoad
    \/ LoginSubmit
    \/ ActivateSubmit
    \/ RecoverSubmit
    \/ ResetSubmit
    \/ AddressesSubmit
    \/ ProfileSubmit
    \/ AccountLoad
    \/ OrdersLoad
    \/ OrderLoad
    \/ BlogLoad
    \/ ArticleLoad
    \/ PoliciesLoad
    \/ CollectionLoad
    \/ RemoveFilter
    \/ ProductLoad
    \/ VariantsSettle
    \/ RootLoad
    \/ HeaderSettle
    \/ RootReturn
    \/ CartSettle
    \/ FooterSettle
    \/ Finish
    \/ Tick

Spec == Init /\ [][Next]_vars

----------------------------------------------------------------------------
(* Navigation: the browser requests a page and follows its redirects *)

NavUrls == {"/account/login", "/account", "/account/orders"}

\* the loaders of the routes that match url run on the session of the
\* request: /account/login is outside the account layout, /account/orders
\* is the orders route inside it; a redirect any of them issues ends the
\* request, and when both redirect either one can come first
PageOutcomes(url, res, res2, sess) ==
    IF url = "/account/login" THEN {LoginLoader(sess)}
    ELSE IF url = "/account" THEN {AccountLoader(url, res, sess)}
    ELSE LET account == AccountLoader(url, res, sess)
             orders == OrdersLoader(res2, sess)
             redirects == {o \in {account, orders} :
                              o.resp.kind = "redirect"}
         IN  {Outcome(o.resp, account.session, account.calls \o orders.calls) :
                  o \in IF redirects # {} THEN redirects ELSE {orders}}

Visit(url, res, res2, out, visited) ==
    /\ req' = Request("document", "GET", NoForm, [pathname |-> url])
    /\ session' = out.session
    /\ calls' = out.calls
    /\ results' = [i \in 1..Len(out.calls) |->
                       IF out.calls[i].op = "customer" THEN res ELSE res2]
    /\ resp' = out.resp
    /\ cookie' = Browser(out.resp)
    /\ promises' = NoPromises
    /\ streamed' = <<>>
    /\ headers' = <<>>
    /\ rootIsLoggedIn' = FALSE
    /\ page' = NoProduct
    /\ trail' = Append(visited, [url |-> url, cookie |-> cookie])
    /\ UNCHANGED now

\* the browser requests one of the pages
Navigate ==
    /\ Idle
    /\ \E url \in NavUrls, res \in CustomerResults, res2 \in CustomerResults :
        \E out \in PageOutcomes(url, res, res2, cookie) :
            Visit(url, res, res2, out, <<>>)

\* the browser requests the Location of a redirect with the cookie it holds
FollowRedirect ==
    /\ req.route = "document"
    /\ resp.kind = "redirect"
    /\ resp.location \in NavUrls
    /\ Len(trail) < MaxHops
    /\ \E res \in CustomerResults, res2 \in CustomerResults :
        \E out \in PageOutcomes(resp.location, res, res2, cookie) :
            Visit(resp.location, res, res2, out, trail)

NavNext ==
    \/ LoginSubmit
    \/ ActivateSubmit
    \/ Navigate
    \/ FollowRedirect
    \/ Finish
    \/ Tick

NavSpec == Init /\ [][NavNext]_vars

----------------------------------------------------------------------------
(* Properties *)

Responded == resp.kind # "none"
Called(op) == \E i \in 1..Len(calls) : calls[i].op = op
ErrorMessage == IF resp.error = <<>> THEN "" ELSE resp.error[1]
BadRequest == resp.kind = "json" /\ resp.status = 400 /\ ErrorMessage # ""

\* C1: a POST to the login action with a non-empty email and password whose
\* mutation returned an accessToken stores that token in the session and
\* answers with a redirect to /account carrying the committed session as
\* Set-Cookie; every other outcome leaves the session as the request found it.
C1_LoginStoresToken ==
    req.route = "login.action" =>
        IF /\ req.method = "POST"
           /\ GetTruthy(req.form, "email")
           /\ GetTruthy(req.form, "password")
           /\ results # <<>>
           /\ results[1].kind = "payload"
           /\ results[1].token.present
           /\ results[1].token.accessToken # ""
        THEN /\ session = results[1].token
             /\ resp.kind = "redirect"
             /\ resp.location = "/account"
             /\ resp.setCookie = <<results[1].token>>
             /\ cookie = results[1].token
        ELSE /\ session = req.cookie
             /\ cookie = req.cookie

C1_Witness ==
    /\ req.route = "login.action"
    /\ resp.kind = "redirect"
    /\ session = Token("tokA", 1)
    /\ req.cookie = NoToken

\* C2: a POST to the login action without a non-empty email and password, to
\* the activate action without two non-empty equal passwords, or to the
\* recover action without a non-empty email is answered with status 400 and
\* an error message, and issues no storefront mutation.
C2_InvalidInput ==
    /\ ( /\ req.route = "login.action"
         /\ req.method = "POST"
         /\ ~(GetTruthy(req.form, "email") /\ GetTruthy(req.form, "password"))
       ) => (BadRequest /\ calls = <<>>)
    /\ ( /\ req.route = "activate.action"
         /\ req.method = "POST"
         /\ ~( /\ GetTruthy(req.form, "password")
               /\ GetTruthy(req.form, "passwordConfirm")
               /\ req.form["password"] = req.form["passwordConfirm"])
       ) => (BadRequest /\ calls = <<>>)
    /\ ( /\ req.route = "recover.action"
         /\ req.method = "POST"
         /\ ~GetTruthy(req.form, "email")
       ) => (BadRequest /\ calls = <<>>)

C2_Witness ==
    /\ req.route = "activate.action"
    /\ req.method = "POST"
    /\ Param(req.params, "id") # ""
    /\ Param(req.params, "activationToken") # ""
    /\ Has(req.form, "password")
    /\ Has(req.form, "passwordConfirm")
    /\ req.form["password"] = "a"
    /\ req.form["passwordConfirm"] = "b"
    /\ resp.status = 400

AccountAction == req.route \in {"addresses.action", "profile.action"}

\* C3 as stated: every request to the addresses or the profile action made
\* without a customerAccessToken in the session is answered with 401 and
\* issues no mutation, whatever its method and form.
C3_Original ==
    (AccountAction /\ ~req.cookie.present) =>
        (resp.status = 401 /\ calls = <<>>)

\* C3 as amended: without a token in the session, a request to the addresses
\* action that carries a non-empty addressId and a PUT request to the profile
\* action are answered with 401; any other request to the two actions is
\* answered with 400 (addresses, no addressId) or 405 (profile, not PUT);
\* none of them issues a mutation.
C3_Unauthenticated ==
    (AccountAction /\ ~req.cookie.present) =>
        /\ calls = <<>>
        /\ session = req.cookie
        /\ IF req.route = "addresses.action"
           THEN resp.status = IF GetTruthy(req.form, "addressId") THEN 401
                              ELSE 400
           ELSE resp.status = IF req.method = "PUT" THEN 401 ELSE 405

C3_Witness ==
    /\ req.route = "addresses.action"
    /\ ~req.cookie.present
    /\ req.method = "DELETE"
    /\ GetTruthy(req.form, "addressId")
    /\ resp.status = 401

\* C4: the blog, collection and product loaders answer 404 whenever their
\* query returned no blog (or a blog without articles), no collection, or no
\* product id, and they return page data only when the resource came back.
C4_NotFound ==
    /\ (req.route \in {"blog.loader", "collection.loader", "product.loader"}
        /\ results # <<>> /\ results[1].kind = "null")
           => (resp.kind = "thrown" /\ resp.status = 404)
    /\ (req.route = "blog.loader" /\ results # <<>>
        /\ results[1].kind = "payload" /\ results[1].obj = "")
           => (resp.kind = "thrown" /\ resp.status = 404)
    /\ (req.route = "product.loader" /\ results # <<>>
        /\ results[1].kind = "payload" /\ results[1].product.id = "")
           => (resp.kind = "thrown" /\ resp.status = 404)
    /\ (req.route = "blog.loader" /\ resp.status = 200)
           => (results[1].kind = "payload" /\ results[1].obj # "")
    /\ (req.route = "collection.loader" /\ resp.status = 200)
           => results[1].kind = "payload"
    /\ (req.route = "product.loader" /\ resp.status = 200)
           => (results[1].kind = "payload" /\ results[1].product.id # ""
               /\ page.id = results[1].product.id)

C4_Witness ==
    /\ req.route = "product.loader"
    /\ results # <<>>
    /\ results[1].kind = "payload"
    /\ results[1].product.id = ""
    /\ resp.status = 404

\* C5: every 400 response of the login action carries a non-empty error
\* message; when the mutation returned no access token, whatever the shape of
\* its result, the message is that of the first customerUserErrors entry.
C5_LoginErrorMessage ==
    (req.route = "login.action" /\ resp.status = 400) =>
        /\ ErrorMessage # ""
        /\ (results # <<>> /\ results[1].kind # "throw") =>
               /\ results[1].errors # <<>>
               /\ ErrorMessage = results[1].errors[1]

\* C6: the root loader's response is produced only once the header query has
\* settled, and it waits for nothing else: as soon as the header query has
\* settled the loader can return, whatever the state of the cart and footer
\* queries; values that settle after the response are streamed in the order
\* they settle; the footer is rendered only once the footer query resolved.
C6_RootDeferral ==
    req.route = "root.loader" =>
        /\ Responded => promises["header"].state # "pending"
        /\ resp.kind = "defer" => promises["header"].state = "resolved"
        /\ (~Responded /\ promises["header"].state # "pending")
               => ENABLED RootReturn
        /\ Layout(resp, promises["footer"]).footer
               => promises["footer"].state = "resolved"
        /\ \A i \in 1..Len(streamed) :
               /\ streamed[i] \in {"cart", "footer"}
               /\ promises[streamed[i]].state # "pending"

C6_Witness ==
    /\ req.route = "root.loader"
    /\ resp.kind = "defer"
    /\ promises["cart"].state = "pending"
    /\ promises["footer"].state = "pending"

\* C7: the product loader's response waits for the product query and not for
\* the variants query; while the variants query is pending the page shows the
\* product form with an empty variants list, once it resolved the form with
\* the resolved variants, once it failed the error element; in both form
\* phases the selected variant and the add-to-cart state are those of the
\* awaited product query.
C7_VariantsDeferral ==
    (req.route = "product.loader" /\ resp.kind = "defer") =>
        LET view == ProductMain(page, promises["variants"])
            product == results[1].product
            selected == IF firstVariantIsDefault(product)
                        THEN product.nodes[1] ELSE product.selectedVariant
            state == promises["variants"].state
        IN  /\ results[1].kind = "payload"
            /\ state \in {"pending", "resolved", "rejected"}
            /\ state = "pending" =>
                   (view.shown = "form" /\ view.variants = <<>>)
            /\ state = "resolved" =>
                   /\ view.shown = "form"
                   /\ view.variants = promises["variants"].value
            /\ state = "rejected" =>
                   view.shown = "There was a problem loading product variants"
            /\ state # "rejected" =>
                   /\ view.selectedVariant = selected
                   /\ view.disabled = ~selected.availableForSale
                   /\ view.label = IF selected.availableForSale
                                   THEN "Add to cart" ELSE "Sold out"

C7_Witness ==
    /\ req.route = "product.loader"
    /\ resp.kind = "defer"
    /\ promises["variants"].state = "pending"
    /\ page.selectedVariant = BlueVariant

\* C8: while handling one request no storefront query or mutation is issued
\* twice: a call that threw or returned user errors is not attempted again.
C8_NoRetry ==
    \A i, j \in 1..Len(calls) : calls[i].op = calls[j].op => i = j

C8_Witness ==
    /\ req.route = "addresses.action"
    /\ req.method = "PUT"
    /\ Len(calls) = 2
    /\ results[1].kind = "payload"
    /\ results[2].kind = "throw"
    /\ resp.status = 400

\* an awaited storefront call of the request threw
AwaitedCallThrew ==
    \/ \E i \in 1..Len(results) : results[i].kind = "throw"
    \/ req.route = "root.loader" /\ promises["header"].state = "rejected"

\* a storefront call of the request threw, awaited or deferred
CallThrew ==
    \/ AwaitedCallThrew
    \/ \E p \in DOMAIN promises : promises[p].state = "rejected"

C10_SessionCommitted ==
    (Responded /\ session # req.cookie) => resp.setCookie = <<session>>

\* the session token has both an accessToken and an expiresAt
CompleteToken(token) ==
    token.present /\ token.accessToken # "" /\ token.expiresAt # 0

\* C11: validateCustomerAccessToken reports isLoggedIn = true exactly when
\* the session token has both accessToken and expiresAt and expiresAt is not
\* earlier than the current time; for an expired token it removes
\* customerAccessToken from the session and appends the committed Set-Cookie
\* header; for an absent or incomplete token it leaves the session untouched
\* and returns no Set-Cookie header.
C11_ValidateToken ==
    req.route = "root.loader" =>
        LET token == req.cookie
        IN  /\ rootIsLoggedIn <=>
                   (CompleteToken(token) /\ token.expiresAt >= now)
            /\ (CompleteToken(token) /\ token.expiresAt < now) =>
                   (session = NoToken /\ headers = <<NoToken>>)
            /\ ~CompleteToken(token) =>
                   (session = token /\ headers = <<>>)

C11_Witness ==
    /\ req.route = "root.loader"
    /\ req.cookie = Token("tokA", 1)
    /\ now = 2
    /\ session = NoToken
    /\ headers # <<>>

\* the session of the request holds a token with an accessToken
HasAccessToken == req.cookie.present /\ req.cookie.accessToken # ""

\* C12: in the account layout loader, a request without a token accessToken
\* to /account, /account/, /account/orders, /account/orders/<x>,
\* /account/profile, /account/addresses or /account/addresses/<x> is answered
\* with a redirect to /account/login and the token is unset; a non-null
\* customer is returned only when the session holds an accessToken and the
\* customer query returned a customer; a logged-in request to /account or
\* /account/ is redirected to /account/orders without querying the customer.
C12_AccountAccess ==
    (req.route = "account.loader" /\ Responded) =>
        LET pathname == req.params["pathname"]
        IN  /\ ( /\ ~HasAccessToken
                 /\ pathname \in {"/account", "/account/", "/account/orders",
                                  "/account/orders/1", "/account/profile",
                                  "/account/addresses",
                                  "/account/addresses/1"}
               ) => /\ resp.kind = "redirect"
                    /\ resp.location = "/account/login"
                    /\ session = NoToken
                    /\ cookie = NoToken
            /\ (resp.kind = "json" /\ resp.data = "customer") =>
                   /\ HasAccessToken
                   /\ results = <<Result("payload", NoToken, <<>>, "customer")>>
            /\ (HasAccessToken /\ pathname \in {"/account", "/account/"}) =>
                   /\ resp.kind = "redirect"
                   /\ resp.location = "/account/orders"
                   /\ calls = <<>>

C12_Witness ==
    /\ req.route = "account.loader"
    /\ req.params["pathname"] = "/account/profile"
    /\ req.cookie = Token("", 3)
    /\ resp.kind = "redirect"
    /\ resp.location = "/account/login"
    /\ cookie = NoToken

\* C13: the orders list loader, the order detail loader, the addresses
\* action and the profile action issue no storefront query or mutation in a
\* request whose session holds no customerAccessToken.
C13_NoCallUnauthenticated ==
    ( /\ req.route \in {"orders.loader", "order.loader", "addresses.action",
                        "profile.action"}
      /\ ~req.cookie.present
    ) => calls = <<>>

C13_Witness ==
    /\ req.route = "order.loader"
    /\ Param(req.params, "id") = "b3JkZXIx"
    /\ ~req.cookie.present
    /\ resp.kind = "redirect"
    /\ resp.location = "/account/login"

\* C14: from any session content and any of /account/login, /account and
\* /account/orders, following the redirects of the login loader, the
\* account layout loader and the orders loader reaches a response that is
\* not a redirect after at most three hops; every redirect leads to one of
\* these pages and no page is requested twice with the same cookie, so
\* there is no cycle between /account/login and /account.
C14_RedirectsTerminate ==
    /\ Len(trail) <= 4
    /\ Len(trail) = 4 => resp.kind # "redirect"
    /\ (req.route = "document" /\ resp.kind = "redirect") =>
           resp.location \in NavUrls
    /\ \A i, j \in 1..Len(trail) : trail[i] = trail[j] => i = j

C14_Witness ==
    /\ Len(trail) = 4
    /\ trail[1] = [url |-> "/account/orders", cookie |-> Token("", 3)]
    /\ trail[2].url = "/account/login"
    /\ trail[3].url = "/account"
    /\ trail[4] = [url |-> "/account/login", cookie |-> NoToken]
    /\ resp.kind = "json"

\* C15: whenever the product loader returns page data, product.selectedVariant
\* is non-null: it is the first variant when that variant has the option
\* Title = "Default Title", otherwise the variant the storefront found for
\* the selected options of the request; when the product exists, its first
\* variant is not the default one and no variant matches, the loader returns
\* no data and redirects with status 302 to the first variant's URL.
C15_SelectedVariant ==
    (req.route = "product.loader" /\ Responded /\ results # <<>>) =>
        LET product == results[1].product
            exists == results[1].kind = "payload" /\ product.id # ""
        IN  /\ resp.kind = "defer" =>
                   /\ exists
                   /\ page.selectedVariant # NoVariant
                   /\ IF firstVariantIsDefault(product)
                      THEN page.selectedVariant = product.nodes[1]
                      ELSE /\ page.selectedVariant = product.selectedVariant
                           /\ page.selectedVariant.selectedOptions =
                                  SelectSeq(Search(req.params),
                                            IsProductOption)
            /\ ( /\ exists
                 /\ ~firstVariantIsDefault(product)
                 /\ product.selectedVariant = NoVariant
               ) => /\ resp.kind = "redirect"
                    /\ resp.status = 302
                    /\ page = NoProduct
                    /\ resp.location.pathname =
                           <<"products", req.params["handle"]>>
                    /\ \A i \in 1..Len(product.nodes[1].selectedOptions) :
                           \E j \in 1..Len(resp.location.search) :
                               resp.location.search[j] =
                                   product.nodes[1].selectedOptions[i]

C15_Witness ==
    /\ req.route = "product.loader"
    /\ resp.kind = "redirect"
    /\ Search(req.params) = <<Option("Color", "Green")>>
    /\ results[1].product.nodes[1] = RedVariant
    /\ resp.location.search = <<Option("Color", "Red")>>

\* C16: the reset action issues the customerReset mutation only when
\* password and passwordConfirm are both non-empty and equal; for every
\* other pair of submitted values it answers 400 without calling the
\* mutation.
C16_ResetPasswordCheck ==
    (req.route = "reset.action" /\ req.method = "POST" /\ Responded) =>
        LET checked == /\ GetTruthy(req.form, "password")
                       /\ GetTruthy(req.form, "passwordConfirm")
                       /\ req.form["password"] = req.form["passwordConfirm"]
        IN  /\ Called("customerReset") => checked
            /\ ~checked => (resp.status = 400 /\ calls = <<>>)

\* C17: the customer update sent by the profile action carries a password
\* only when a non-empty newPassword was submitted together with a non-empty
\* currentPassword, newPassword equals newPasswordConfirm and differs from
\* currentPassword, and the password sent is then newPassword; when no new
\* password is submitted, or the password fields are absent from the form,
\* no password is sent.
C17_PasswordChange ==
    (req.route = "profile.action" /\ Called("customerUpdate")) =>
        LET input == calls[1].input
            form == req.form
        IN  "password" \in DOMAIN input =>
                /\ GetTruthy(form, "newPassword")
                /\ GetTruthy(form, "currentPassword")
                /\ Has(form, "newPasswordConfirm")
                /\ form["newPassword"] = form["newPasswordConfirm"]
                /\ form["newPassword"] # form["currentPassword"]
                /\ input["password"] = form["newPassword"]

\* C18: when the submitted profile form contains the field acceptsMarketing,
\* the input of the customerUpdate mutation has acceptsMarketing = true if
\* the field's value is "on" and false otherwise.
C18_AcceptsMarketing ==
    ( /\ req.route = "profile.action"
      /\ Called("customerUpdate")
      /\ Has(req.form, "acceptsMarketing")
    ) => LET input == calls[1].input
         IN  /\ "acceptsMarketing" \in DOMAIN input
             /\ input["acceptsMarketing"] =
                    (req.form["acceptsMarketing"] = "on")

\* the default-address mutation of an addresses request comes second, after
\* a create (POST) or update (PUT) that returned without user errors, in a
\* request whose defaultAddress is "on"
DefaultAfterSuccess ==
    /\ req.method \in {"POST", "PUT"}
    /\ Len(calls) = 2
    /\ calls[1].op = IF req.method = "POST" THEN "customerAddressCreate"
                     ELSE "customerAddressUpdate"
    /\ calls[2].op = "customerDefaultAddressUpdate"
    /\ results[1].kind # "throw"
    /\ ~HasUserErrors(results[1])
    /\ req.method = "POST" => results[1].obj # ""
    /\ Has(req.form, "defaultAddress")
    /\ req.form["defaultAddress"] = "on"

\* C19 as stated: the default-address mutation is issued only after the
\* create/update mutation of the same request returned without user errors
\* and only with defaultAddress = "on", and the id it names is the id of the
\* created address (POST) or the submitted addressId (PUT).
C19_Original ==
    (req.route = "addresses.action" /\ Called("customerDefaultAddressUpdate"))
        => /\ DefaultAfterSuccess
           /\ calls[2].id = IF req.method = "POST" THEN results[1].obj
                            ELSE req.form["addressId"]

\* C19 as amended: the default-address mutation is issued only after the
\* create/update mutation of the same request returned without user errors
\* and only with defaultAddress = "on", and the id it names is the
\* URI-decoded id of the created address (POST) or the URI-decoded submitted
\* addressId (PUT), which is also the id the update mutation was given.
C19_MutationOrdering ==
    (req.route = "addresses.action" /\ Called("customerDefaultAddressUpdate"))
        => /\ DefaultAfterSuccess
           /\ calls[2].id =
                  DecodeURIComponent(IF req.method = "POST"
                                     THEN results[1].obj
                                     ELSE req.form["addressId"])
           /\ req.method = "PUT" => calls[2].id = calls[1].id

C19_Witness ==
    /\ req.route = "addresses.action"
    /\ req.method = "PUT"
    /\ StringGet(req.form, "addressId") = "gid%3A2"
    /\ Len(calls) = 2
    /\ calls[2].op = "customerDefaultAddressUpdate"
    /\ calls[2].id = "gid:2"
    /\ resp.status = 200

\* C20: for every variant option {name, value}, encoding it into the URL
\* with filterInputToParams (type LIST) and decoding that URL in the
\* collection loader yields a variantOption filter with the same name and
\* the same value.
C20_VariantOptionRoundTrip ==
    ( /\ req.route = "collection.loader"
      /\ calls # <<>>
      /\ req.params["filter"].type = "LIST"
      /\ req.params["filter"].input[1].typeof = "object"
    ) => LET option == req.params["filter"].input[1].value
             filters == calls[1].input
         IN  \E i \in 1..Len(filters) :
                 /\ filters[i].key = "variantOption"
                 /\ filters[i].name = option.name
                 /\ filters[i].value = option.value

\* the number of entries of params that are the pair (key, value)
Count(params, entry) ==
    Cardinality({i \in 1..Len(params) : params[i] = entry})

\* C21: the link built by getAppliedFilterLink for an applied filter drops
\* that filter's URL entry and keeps every other search parameter, including
\* every other variantOption entry, with its value unchanged.
C21_RemoveExactlyThatFilter ==
    (req.route = "collection.loader" /\ Has(req.params, "removed")) =>
        LET from == req.params["from"]
            removed == req.params["removed"].urlParam
            link == URLSearchParams(Search(req.params))
        IN  /\ Count(link, removed) < Count(from, removed)
            /\ \A i \in 1..Len(from) :
                   from[i] # removed =>
                       Count(link, from[i]) = Count(from, from[i])
            /\ \A i \in 1..Len(link) : Count(from, link[i]) > 0

====
